---- MODULE Spec2Model ----
(***************************************************************************)
(* Model of the tourist recommendation service:                            *)
(*   search_service.py  _cos_sim, _VecCache, SearchService                 *)
(*   data_service.py    URL helpers, _ImageCache, DataService              *)
(*   embedding_service.py  EmbeddingService.embed                          *)
(*                                                                         *)
(* Strings the code inspects (titles, addresses, overviews, URLs) are      *)
(* sequences of tokens, so that strip / split / replace / endswith are     *)
(* computed on them.  Opaque strings (query text, content ids) are TLA+    *)
(* strings.  Floats: every similarity the model forms is a quotient        *)
(* dot / sqrt(n) of integers and is compared exactly by cross              *)
(* multiplication.                                                         *)
(***************************************************************************)
EXTENDS Integers, Sequences, FiniteSets, TLC

VARIABLES
    store,      \* _VecCache: the rows of the JSONL file at self.path
    max,        \* _VecCache.max
    imgCache,   \* DataService._img_cache: ttl, max and the entries (key, url, saved_at)
    now,        \* time.time()
    writers,    \* the processes inside _VecCache.add: where each one is and its rows
    ret         \* the last call: its arguments, what it returned, what it called

vars == <<store, max, imgCache, now, writers, ret>>

----------------------------------------------------------------------------
(* Bounds of the model *)

MaxTopK == 2        \* top_k / want arguments range over 0..MaxTopK
MaxAdds == 2        \* _VecCache.add calls followed in the cache-only runs
MaxCacheItems == 2  \* max_items given to _VecCache ranges over 0..MaxCacheItems
MaxTime == 3        \* time.time() runs over 0..MaxTime in the image-cache runs
MaxImages == 3      \* max_size given to _ImageCache ranges over 0..MaxImages

----------------------------------------------------------------------------
(* Python sequence primitives *)

Min(a, b) == IF a <= b THEN a ELSE b

Max(a, b) == IF a >= b THEN a ELSE b

\* s[:n]  (a negative n counts from the end)
SliceTo(s, n) ==
    LET stop == IF n >= 0 THEN Min(n, Len(s)) ELSE Max(Len(s) + n, 0)
    IN  SubSeq(s, 1, stop)

\* s[-m:]  (s[-0:] is s[0:], the whole list; a negative m is s[|m|:])
SliceLast(s, m) ==
    LET start == IF m > 0 THEN Max(Len(s) - m, 0)
                 ELSE IF m = 0 THEN 0
                 ELSE Min(0 - m, Len(s))
    IN  SubSeq(s, start + 1, Len(s))

RECURSIVE SumSeq(_)
SumSeq(s) == IF s = <<>> THEN 0 ELSE Head(s) + SumSeq(Tail(s))

----------------------------------------------------------------------------
(* search_service.py : _cos_sim *)

\* sum(x*y for x, y in zip(a, b))
Dot(a, b) == SumSeq([i \in 1..Min(Len(a), Len(b)) |-> a[i] * b[i]])

\* The similarity dot / (na * nb) as the pair (num, sq) standing for
\* num / sqrt(sq).  math.sqrt(0) is falsy and replaced by 1e-9; the vector is
\* then all zero, num is 0 and the quotient is 0 whatever the denominator, so
\* the model keeps 1 for it.
_cos_sim(a, b) ==
    LET na2 == Dot(a, a)
        nb2 == Dot(b, b)
    IN  [num |-> Dot(a, b),
         sq  |-> (IF na2 = 0 THEN 1 ELSE na2) * (IF nb2 = 0 THEN 1 ELSE nb2)]

\* x > y for two similarities
SimGt(x, y) ==
    IF x.num >= 0 /\ y.num >= 0 THEN x.num * x.num * y.sq > y.num * y.num * x.sq
    ELSE IF x.num < 0 /\ y.num < 0 THEN x.num * x.num * y.sq < y.num * y.num * x.sq
    ELSE x.num >= 0 /\ y.num < 0

SimEq(x, y) == ~SimGt(x, y) /\ ~SimGt(y, x)

\* Config.CACHE_SIM_THRESHOLD = 0.82 = ThresholdNum / ThresholdDen
ThresholdNum == 82
ThresholdDen == 100

\* sim >= Config.CACHE_SIM_THRESHOLD
AtLeastThreshold(x) ==
    /\ x.num >= 0
    /\ ThresholdDen * ThresholdDen * x.num * x.num >= ThresholdNum * ThresholdNum * x.sq

----------------------------------------------------------------------------
(* search_service.py : _VecCache *)

\* obj.get("embedding") is a list: the row has the field
HasVec(obj) == "embedding" \in DOMAIN obj

\* a stretch of the file no process has written yet: a line-sized run of NUL
\* bytes left when a process writes behind the end of a truncated file
Hole == [hole |-> TRUE]

IsHole(line) == "hole" \in DOMAIN line

\* _VecCache._iter: the rows of the file, in file order.  The bytes of a hole
\* run into the line behind it, which json.loads then rejects: such lines are
\* skipped
RECURSIVE Parsed(_, _)
Parsed(lines, i) ==
    IF i > Len(lines) THEN <<>>
    ELSE (IF IsHole(lines[i]) \/ (i > 1 /\ IsHole(lines[i - 1])) THEN <<>>
          ELSE <<lines[i]>>) \o Parsed(lines, i + 1)

_iter(rows) == Parsed(rows, 1)

\* scored: (sim, obj) for every row whose embedding is a list
RECURSIVE Scored(_, _)
Scored(rows, qvec) ==
    IF rows = <<>> THEN <<>>
    ELSE LET obj == Head(rows)
             rest == Scored(Tail(rows), qvec)
         IN  IF HasVec(obj)
             THEN <<[sim |-> _cos_sim(qvec, obj.embedding), obj |-> obj]>> \o rest
             ELSE rest

\* a sort that is not stable: e goes in front of the elements that compare
\* equal to it (C12 is tested against it)
RECURSIVE InsertDescUnstable(_, _)
InsertDescUnstable(s, e) ==
    IF s = <<>> THEN <<e>>
    ELSE IF SimGt(e.sim, Head(s).sim) \/ SimEq(e.sim, Head(s).sim) THEN <<e>> \o s
    ELSE <<Head(s)>> \o InsertDescUnstable(Tail(s), e)

\* where list.sort(reverse=True) puts e among the sorted s: a stable sort keeps
\* e behind every element that compares equal and came before it
RECURSIVE InsertDesc(_, _)
InsertDesc(s, e) ==
    IF s = <<>> THEN <<e>>
    ELSE IF SimGt(e.sim, Head(s).sim) THEN <<e>> \o s
    ELSE <<Head(s)>> \o InsertDesc(Tail(s), e)

\* scored.sort(key=lambda x: x[0], reverse=True)
RECURSIVE SortDesc(_)
SortDesc(scored) ==
    IF scored = <<>> THEN <<>>
    ELSE InsertDesc(SortDesc(SubSeq(scored, 1, Len(scored) - 1)), scored[Len(scored)])

\* _VecCache.search(qvec, top_k)
VecSearch(rows, qvec, top_k) ==
    LET sorted == SliceTo(SortDesc(Scored(_iter(rows), qvec)), top_k)
    IN  [i \in 1..Len(sorted) |-> sorted[i].obj]

\* a faulty truncation, rows[:self.max], that keeps the oldest rows (C7 is
\* tested against it)
TruncateOldestKept(rows, m) == IF Len(rows) > m THEN SliceTo(rows, m) ELSE rows

\* rows[-self.max:] when len(rows) > self.max
Truncate(rows, m) == IF Len(rows) > m THEN SliceLast(rows, m) ELSE rows

\* a variant of add that does not read the file first and writes the new
\* record alone (C14 is tested against it)
VecAddUnread(rows, m, query, embedding, cards) ==
    Truncate(<<[query |-> query, embedding |-> embedding, cards |-> cards]>>, m)

\* _VecCache.add(query, embedding, cards): the rows written back to the file
VecAdd(rows, m, query, embedding, cards) ==
    Truncate(Append(_iter(rows),
                    [query |-> query, embedding |-> embedding, cards |-> cards]), m)

----------------------------------------------------------------------------
(* Python string primitives on token sequences.  A length counts tokens. *)

\* str.strip()
RECURSIVE LStrip(_)
LStrip(s) == IF s # <<>> /\ Head(s) = " " THEN LStrip(Tail(s)) ELSE s

RECURSIVE RStrip(_)
RStrip(s) ==
    IF s # <<>> /\ s[Len(s)] = " " THEN RStrip(SubSeq(s, 1, Len(s) - 1)) ELSE s

Strip(s) == RStrip(LStrip(s))

\* the tokens of s before the first one that is in stops (all of s if none)
RECURSIVE Before(_, _)
Before(s, stops) ==
    IF s = <<>> \/ Head(s) \in stops THEN <<>>
    ELSE <<Head(s)>> \o Before(Tail(s), stops)

\* the tokens of s from the first one that is in stops on (none if none)
RECURSIVE From(_, _)
From(s, stops) ==
    IF s = <<>> \/ Head(s) \in stops THEN s ELSE From(Tail(s), stops)

\* tok in s
Contains(s, tok) == \E i \in 1..Len(s) : s[i] = tok

\* s.rsplit(tok, 1)[-1]
RECURSIVE AfterLast(_, _)
AfterLast(s, tok) ==
    IF Contains(s, tok) THEN AfterLast(Tail(From(s, {tok})), tok) ELSE s

\* s.endswith(suf)
EndsWith(s, suf) ==
    Len(suf) <= Len(s) /\ SubSeq(s, Len(s) - Len(suf) + 1, Len(s)) = suf

\* s with every token of toks dropped: s.replace(t, "") for t in toks
RECURSIVE Without(_, _)
Without(s, toks) ==
    IF s = <<>> THEN <<>>
    ELSE IF Head(s) \in toks THEN Without(Tail(s), toks)
    ELSE <<Head(s)>> \o Without(Tail(s), toks)

\* sub in s, as a substring
IsInfix(sub, s) ==
    \E i \in 0..(Len(s) - Len(sub)) : SubSeq(s, i + 1, i + Len(sub)) = sub

\* str.lower(): the model's only upper-case tokens
LowerTok(t) ==
    IF t = "EXAMPLE" THEN "example" ELSE IF t = "JPG" THEN "jpg" ELSE t

Lower(s) == [i \in 1..Len(s) |-> LowerTok(s[i])]

----------------------------------------------------------------------------
(* data_service.py : address and URL helpers *)

\* _compose_full_address(addr1, addr2)
_compose_full_address(addr1, addr2) ==
    LET a1 == Strip(addr1)
        a2 == Strip(addr2)
    IN  IF a1 # <<>> /\ a2 # <<>> THEN Strip(a1 \o <<" ">> \o a2)
        ELSE IF a1 # <<>> THEN a1 ELSE a2

\* _to_https(url)
_to_https(url) ==
    LET u == Strip(url)
    IN  IF u = <<>> THEN <<>>
        ELSE IF Head(u) = "http://" THEN <<"https://">> \o Tail(u)
        ELSE u

\* urlparse(url).netloc: what stands between the scheme (or a leading //)
\* and the first / ; empty when the URL names no scheme
UrlNetloc(url) ==
    IF url # <<>> /\ Head(url) \in {"http://", "https://", "//"}
    THEN Before(Tail(url), {"/"})
    ELSE <<>>

\* urlparse(url).path
UrlPath(url) ==
    IF url # <<>> /\ Head(url) \in {"http://", "https://", "//"}
    THEN From(Tail(url), {"/"})
    ELSE url

\* urlparse(url).netloc.lower().split(":")[0]
HostOf(url) == Before(Lower(UrlNetloc(url)), {":"})

\* Config.IMAGE_ALLOWED_EXTS
IMAGE_ALLOWED_EXTS == {"jpg", "jpeg", "png", "webp"}

\* Config.IMAGE_DENY_DOMAINS
IMAGE_DENY_DOMAINS == {<<"example", ".", "com">>, <<"localhost">>, <<"127.0.0.1">>}

\* Config.IMAGE_HEAD_WHITELIST_NOHEAD
IMAGE_HEAD_WHITELIST_NOHEAD == {<<"tong", ".", "visitkorea", ".", "or", ".", "kr">>}

\* Config.IMAGE_REQUIRE_HEAD_OK
IMAGE_REQUIRE_HEAD_OK == TRUE

\* Config.IMAGE_MIN_BYTES, Config.IMAGE_MAX_BYTES
IMAGE_MIN_BYTES == 1024
IMAGE_MAX_BYTES == 15 * 1024 * 1024

\* _ext_ok(url)
_ext_ok(url) ==
    LET p == Lower(UrlPath(url))
        ext == AfterLast(p, ".")
    IN  Contains(p, ".") /\ Len(ext) = 1 /\ ext[1] \in IMAGE_ALLOWED_EXTS

\* host == d or host.endswith("." + d) for some deny-listed d
HostDenied(host) ==
    \E d \in IMAGE_DENY_DOMAINS : host = d \/ EndsWith(host, <<".">> \o d)

\* _domain_blocked(url)
_domain_blocked(url) == HostDenied(HostOf(url))

\* What a HEAD probe answers: it raises, or gives a status, whether the
\* Content-Type starts with image/, and a Content-Length (-1: absent or not
\* all digits).
HeadRaises == [raised |-> TRUE, status |-> 0, image |-> FALSE, clen |-> -1]

HeadAnswer(status, image, clen) ==
    [raised |-> FALSE, status |-> status, image |-> image, clen |-> clen]

HeadGood == HeadAnswer(200, TRUE, 2048)

\* _head_ok(url); head: the answer of requests.head(url)
_head_ok(url, head) ==
    IF ~IMAGE_REQUIRE_HEAD_OK THEN TRUE
    ELSE IF HostOf(url) \in IMAGE_HEAD_WHITELIST_NOHEAD THEN TRUE
    ELSE IF head.raised THEN FALSE
    ELSE IF head.status >= 400 THEN FALSE
    ELSE IF ~head.image THEN FALSE
    ELSE IF head.clen >= 0 /\ (head.clen < IMAGE_MIN_BYTES \/ head.clen > IMAGE_MAX_BYTES)
         THEN FALSE
    ELSE TRUE

\* whether _validate_image_url(url) gets as far as the HEAD request
ProbesHead(url) ==
    LET u == _to_https(url)
    IN  /\ u # <<>>
        /\ ~_domain_blocked(u)
        /\ _ext_ok(u)
        /\ IMAGE_REQUIRE_HEAD_OK
        /\ HostOf(u) \notin IMAGE_HEAD_WHITELIST_NOHEAD

\* _validate_image_url(url)
_validate_image_url(url, head) ==
    LET u == _to_https(url)
    IN  IF u = <<>> \/ _domain_blocked(u) \/ ~_ext_ok(u) \/ ~_head_ok(u, head)
        THEN <<>>
        ELSE u

\* _normalize_homepage(raw): the href of an anchor if there is one, &amp;
\* unescaped, a scheme put in front, http raised to https
_normalize_homepage(raw) ==
    LET t0 == Strip(raw)
        inHref == IF Contains(t0, "href=\"") THEN Tail(From(t0, {"href=\""})) ELSE <<>>
        m  == Before(inHref, {"\"", "'"})
        hasM == /\ Contains(t0, "href=\"")
                /\ m # <<>>
                /\ Len(inHref) > Len(m)
        t1 == IF hasM THEN Strip(m) ELSE t0
        t2 == [i \in 1..Len(t1) |-> IF t1[i] = "&amp;" THEN "&" ELSE t1[i]]
        t3 == IF t2 # <<>> /\ Head(t2) = "//" THEN <<"https://">> \o Tail(t2) ELSE t2
        t4 == IF t3 # <<>> /\ Lower(<<Head(t3)>>)[1] \in {"http://", "https://"}
              THEN t3 ELSE <<"https://">> \o t3
    IN  IF t0 = <<>> THEN <<>> ELSE _to_https(t4)

----------------------------------------------------------------------------
(* data_service.py : _ImageCache.  store is a dict: its entries are kept in *)
(* insertion order, an overwritten key keeps its place.                     *)

\* _ImageCache(ttl_sec, max_size)
NewImageCache(ttl_sec, max_size) == [ttl |-> ttl_sec, max |-> max_size, store |-> <<>>]

\* _ImageCache._expired(ts)
_expired(c, ts, t) == IF c.ttl > 0 THEN (t - ts) > c.ttl ELSE FALSE

\* the entries of a dict without those at the positions in gone
RECURSIVE DropAt(_, _, _)
DropAt(entries, gone, i) ==
    IF i > Len(entries) THEN <<>>
    ELSE (IF i \in gone THEN <<>> ELSE <<entries[i]>>) \o DropAt(entries, gone, i + 1)

PosOf(entries, key) == {i \in 1..Len(entries) : entries[i].key = key}

\* _ImageCache.get(key) at time t: the url returned and the cache afterwards
ImageCacheGet(c, key, t) ==
    IF key = "" \/ PosOf(c.store, key) = {} THEN [url |-> <<>>, cache |-> c]
    ELSE LET i == CHOOSE j \in PosOf(c.store, key) : TRUE
         IN  IF _expired(c, c.store[i].saved_at, t)
             THEN [url |-> <<>>,
                   cache |-> [c EXCEPT !.store = DropAt(c.store, {i}, 1)]]
             ELSE [url |-> c.store[i].url, cache |-> c]

\* a variant that takes the n entries inserted first, whatever their
\* timestamps (C13 is tested against it)
OldestPositionsByInsertion(entries, n) == {i \in 1..Len(entries) : i <= n}

\* the positions sorted(store.items(), key=saved_at)[:n] selects: the n entries
\* with the smallest saved_at, earlier insertion first among equals
OldestPositions(entries, n) ==
    {i \in 1..Len(entries) :
        Cardinality({j \in 1..Len(entries) :
            \/ entries[j].saved_at < entries[i].saved_at
            \/ (entries[j].saved_at = entries[i].saved_at /\ j < i)}) < n}

\* store[key] = (url, time.time())
PutEntry(entries, key, url, t) ==
    IF PosOf(entries, key) = {}
    THEN Append(entries, [key |-> key, url |-> url, saved_at |-> t])
    ELSE [i \in 1..Len(entries) |->
            IF entries[i].key = key
            THEN [key |-> key, url |-> url, saved_at |-> t]
            ELSE entries[i]]

\* _ImageCache.set(key, url) at time t: the cache afterwards
ImageCacheSet(c, key, url, t) ==
    IF key = "" \/ url = <<>> THEN c
    ELSE LET kept == IF c.max > 0 /\ Len(c.store) >= c.max
                     THEN DropAt(c.store,
                                 OldestPositions(c.store, Max(1, c.max \div 2)), 1)
                     ELSE c.store
         IN  [c EXCEPT !.store = PutEntry(kept, key, url, t)]

----------------------------------------------------------------------------
(* data_service.py : DataService.  env is what the outside world answers    *)
(* during one call:                                                        *)
(*   down    the endpoints whose call raises (timeout, HTTP error, bad     *)
(*           JSON), out of Deps                                            *)
(*   llm     [region, cat1] the model extracts from the query              *)
(*   areas   the items of areaCode2                                        *)
(*   items   the items of areaBasedList2                                   *)
(*   detail  content id -> [overview, homepage] of detailCommon2           *)
(*   summary the sentence the model writes for an overview                 *)
(*   images  content id -> the items of detailImage2                       *)
(*   head    url -> the answer of a HEAD probe                             *)
(* Each operation returns a record with what it returns and the external   *)
(* calls it made, in order.                                                *)

Deps == {"embed", "extract", "summary", "areaCode2", "areaBasedList2",
         "detailCommon2", "detailImage2"}

\* Config.NUM_RECOMMEND, Config.API_FETCH_MULTIPLIER
NUM_RECOMMEND == 5
API_FETCH_MULTIPLIER == 6

\* the codes of CAT1_CHOICES
CAT1_CODES == {"A01", "A02", "A03", "A04", "A05", "B02", "C01"}

\* _REGION_HINTS, in list order
_REGION_HINTS ==
    <<"seoul", "busan", "daegu", "incheon", "gwangju", "daejeon", "ulsan", "sejong",
      "gyeonggi", "gangwon", "chungbuk", "chungnam", "jeonbuk", "jeonnam",
      "gyeongbuk", "gyeongnam", "jeju", "gangwon-teukbyeoljachido",
      "jeju-teukbyeoljachido">>

\* placeholders of the card
NO_NAME == <<"no name">>
NO_REASON == <<"no summary">>
NO_ADDRESS == <<"no address">>

\* next((w for w in _REGION_HINTS if w in t), t)
RegionFallback(user_query) ==
    LET t == Strip(user_query)
        found == {i \in 1..Len(_REGION_HINTS) : Contains(t, _REGION_HINTS[i])}
    IN  IF found = {} THEN t
        ELSE <<_REGION_HINTS[CHOOSE i \in found : \A j \in found : i <= j]>>

\* str.upper() on a category code
UpperCat(c) == IF c = "a01" THEN "A01" ELSE c

\* _extract_region_and_cat1(user_query); cat1 "" is None
_extract_region_and_cat1(user_query, env) ==
    IF "extract" \in env.down
    THEN [region |-> RegionFallback(user_query), cat1 |-> "", calls |-> <<"extract">>]
    ELSE LET region == Strip(env.llm.region)
             cat1 == UpperCat(env.llm.cat1)
         IN  [region |-> IF region = <<>> THEN RegionFallback(user_query) ELSE region,
              cat1 |-> IF cat1 \in CAT1_CODES THEN cat1 ELSE "",
              calls |-> <<"extract">>]

\* the administrative suffixes _resolve_area_code removes
AREA_SUFFIXES == {"teukbyeoljachido", "gwangyeoksi", "teukbyeolsi"}

\* _resolve_area_code(region_name): the area code, "" for None
_resolve_area_code(region_name, env) ==
    IF "areaCode2" \in env.down THEN [code |-> "", calls |-> <<"areaCode2">>]
    ELSE LET items == env.areas
             name == Strip(Without(region_name, AREA_SUFFIXES))
             match == {i \in 1..Len(items) : name # <<>> /\ IsInfix(name, items[i].name)}
             first == IF match # {} THEN CHOOSE i \in match : \A j \in match : i <= j
                      ELSE 1
         IN  [code |-> IF items = <<>> THEN "" ELSE items[first].code,
              calls |-> <<"areaCode2">>]

\* _fetch_detail_common(content_id)
_fetch_detail_common(content_id, env) ==
    IF content_id = ""
    THEN [overview |-> <<>>, homepage |-> <<>>, calls |-> <<>>]
    ELSE IF "detailCommon2" \in env.down \/ content_id \notin DOMAIN env.detail
    THEN [overview |-> <<>>, homepage |-> <<>>, calls |-> <<"detailCommon2">>]
    ELSE [overview |-> Strip(env.detail[content_id].overview),
          homepage |-> _normalize_homepage(env.detail[content_id].homepage),
          calls |-> <<"detailCommon2">>]

\* the answer of requests.head(url)
HeadFor(env, url) == IF url \in DOMAIN env.head THEN env.head[url] ELSE HeadRaises

\* _validate_image_url(raw) with the calls it makes
Validate(raw, env) ==
    [url |-> _validate_image_url(raw, HeadFor(env, _to_https(raw))),
     calls |-> <<"validate">> \o (IF ProbesHead(raw) THEN <<"head">> ELSE <<>>)]

\* v if it is a valid URL, else what the rest of the loop returns
OrElse(v, rest) ==
    IF v.url # <<>> THEN v ELSE [url |-> rest.url, calls |-> v.calls \o rest.calls]

\* the first of urls that validates: for ... : v = _validate_image_url(..); if v: return v
RECURSIVE FirstValid(_, _)
FirstValid(urls, env) ==
    IF urls = <<>> THEN [url |-> <<>>, calls |-> <<>>]
    ELSE OrElse(Validate(Head(urls), env), FirstValid(Tail(urls), env))

\* originimgurl, smallimageurl of every item, in the order the loops visit them
RECURSIVE ImageFields(_)
ImageFields(items) ==
    IF items = <<>> THEN <<>>
    ELSE <<Head(items).originimgurl, Head(items).smallimageurl>> \o ImageFields(Tail(items))

\* the answer of _fetch_detail_image, v being what its loops found
DetailImage(v) == [url |-> v.url, calls |-> <<"detailImage2">> \o v.calls]

\* _fetch_detail_image(content_id)
_fetch_detail_image(content_id, env) ==
    IF "detailImage2" \in env.down \/ content_id \notin DOMAIN env.images
    THEN [url |-> <<>>, calls |-> <<"detailImage2">>]
    ELSE DetailImage(FirstValid(ImageFields(env.images[content_id]), env))

\* re.split(r"[.!?]\s*", s)[0].strip()
FirstSentence(s) == Strip(Before(s, {".", "!", "?"}))

\* _summarize_one_line(text)
_summarize_one_line(text, env) ==
    LET t == Strip(text)
    IN  IF t = <<>> THEN [text |-> <<>>, calls |-> <<>>]
        ELSE IF "summary" \in env.down
        THEN LET s == FirstSentence(t)
             IN  [text |-> SliceTo(s, 40) \o (IF Len(s) > 40 THEN <<"...">> ELSE <<>>),
                  calls |-> <<"summary">>]
        ELSE LET s == FirstSentence(Strip(env.summary))
             IN  [text |-> IF s # <<>> THEN s \o <<".">> ELSE <<>>,
                  calls |-> <<"summary">>]

\* the pattern of _clean_items: one of the shop words anywhere, or the shop
\* suffix at the end of the title
SHOP_WORDS == {"daerijeom", "jijeom", "mart", "baekhwajeom", "myeonsejeom",
               "outlet", "halinjeom", "store"}

SHOP_SUFFIX == "jeom"

Commercial(title) ==
    \/ \E i \in 1..Len(title) : title[i] \in SHOP_WORDS
    \/ (title # <<>> /\ title[Len(title)] = SHOP_SUFFIX)

\* a faulty cleaning that drops nothing (C9 is tested against it)
_clean_items_keep_all(items) == items

\* _clean_items(items)
RECURSIVE _clean_items(_)
_clean_items(items) ==
    IF items = <<>> THEN <<>>
    ELSE LET title == Strip(Head(items).title)
             rest == _clean_items(Tail(items))
         IN  IF title = <<>> \/ Commercial(title) THEN rest
             ELSE <<Head(items)>> \o rest

\* a variant of the choice that tries firstimage before firstimage2
PickAmongFirstimageFirst(cid_key, got, v2, v1, d, t) ==
    IF got.url # <<>>
    THEN [img |-> got.url, cache |-> got.cache, calls |-> <<>>]
    ELSE IF v1.url # <<>>
    THEN [img |-> v1.url, cache |-> ImageCacheSet(got.cache, cid_key, v1.url, t),
          calls |-> v1.calls]
    ELSE IF v2.url # <<>>
    THEN [img |-> v2.url, cache |-> ImageCacheSet(got.cache, cid_key, v2.url, t),
          calls |-> v1.calls \o v2.calls]
    ELSE [img |-> d.url,
          cache |-> IF d.url # <<>> THEN ImageCacheSet(got.cache, cid_key, d.url, t)
                    ELSE got.cache,
          calls |-> v1.calls \o v2.calls \o d.calls]

\* the four sources of _pick_valid_image in the order it asks them: the cache
\* entry got, firstimage2 (v2), firstimage (v1), the detail images (d)
PickAmong(cid_key, got, v2, v1, d, t) ==
    IF got.url # <<>>
    THEN [img |-> got.url, cache |-> got.cache, calls |-> <<>>]
    ELSE IF v2.url # <<>>
    THEN [img |-> v2.url, cache |-> ImageCacheSet(got.cache, cid_key, v2.url, t),
          calls |-> v2.calls]
    ELSE IF v1.url # <<>>
    THEN [img |-> v1.url, cache |-> ImageCacheSet(got.cache, cid_key, v1.url, t),
          calls |-> v2.calls \o v1.calls]
    ELSE [img |-> d.url,
          cache |-> IF d.url # <<>> THEN ImageCacheSet(got.cache, cid_key, d.url, t)
                    ELSE got.cache,
          calls |-> v2.calls \o v1.calls \o d.calls]

\* _pick_valid_image(cid_key, firstimage2, firstimage) at time t
_pick_valid_image(cid_key, firstimage2, firstimage, env, c, t) ==
    PickAmong(cid_key, ImageCacheGet(c, cid_key, t), Validate(firstimage2, env),
              Validate(firstimage, env), _fetch_detail_image(cid_key, env), t)

\* x or d, for a string x
OrDefault(x, d) == IF x # <<>> THEN x ELSE d

\* reason = summary or (overview[:120] + "..." if overview else "")
ReasonOf(sum, overview) ==
    OrDefault(sum.text,
              IF overview # <<>> THEN SliceTo(overview, 120) \o <<"...">> ELSE <<>>)

\* the card dict of item it, given its clean title, its address, the detail
\* det, the summary sum and the image pick
CardDict(it, region, title, addr, det, sum, pick) ==
    [card |-> [name |-> OrDefault(title, NO_NAME),
               reason |-> OrDefault(ReasonOf(sum, det.overview), NO_REASON),
               address |-> OrDefault(addr, NO_ADDRESS),
               image_url |-> pick.img,
               homepage |-> det.homepage,
               metadata |-> [contentid |-> it.contentid, cat1 |-> it.cat1,
                             addr1 |-> it.addr1, firstimage2 |-> it.firstimage2,
                             title |-> title, region |-> region]],
     cache |-> pick.cache,
     calls |-> det.calls \o sum.calls \o pick.calls]

\* the rest of the pass once _fetch_detail_common answered det
CardAfterDetail(it, region, det, env, c, t) ==
    CardDict(it, region,
             Strip(Without(it.title, {"<b>", "</b>"})),
             _compose_full_address(it.addr1, it.addr2),
             det,
             _summarize_one_line(det.overview, env),
             _pick_valid_image(it.contentid, _to_https(it.firstimage2),
                               _to_https(it.firstimage), env, c, t))

\* one pass of the loop of recommend_items: the card made of item it
CardOf(it, region, env, c, t) ==
    CardAfterDetail(it, region, _fetch_detail_common(it.contentid, env), env, c, t)

\* out.append(card): the card of one pass before those of the later passes
Appended(one, rest) ==
    [cards |-> <<one.card>> \o rest.cards,
     cache |-> rest.cache,
     calls |-> one.calls \o rest.calls]

\* for it in sample: ... out.append(card)
RECURSIVE Enrich(_, _, _, _, _)
RECURSIVE EnrichAfter(_, _, _, _, _)
Enrich(sample, region, env, c, t) ==
    IF sample = <<>> THEN [cards |-> <<>>, cache |-> c, calls |-> <<>>]
    ELSE EnrichAfter(CardOf(Head(sample), region, env, c, t), Tail(sample), region, env, t)

\* the later passes run on the image cache the pass before them left
EnrichAfter(one, later, region, env, t) ==
    Appended(one, Enrich(later, region, env, one.cache, t))

\* a faulty default that ignores the want given (C3 is tested against it)
WantIgnored(want) == NUM_RECOMMEND

\* want = want or Config.NUM_RECOMMEND   (None and 0 are both falsy)
WantOrDefault(want) == IF want = 0 THEN NUM_RECOMMEND ELSE want

\* num_rows = max(80, want * Config.API_FETCH_MULTIPLIER)
NumRows(want) == Max(80, want * API_FETCH_MULTIPLIER)

\* a faulty listing that has items although the call raised (C10 is tested
\* against it)
ListedDespiteFailure(env) == env.items

\* the items recommend_items holds after step 3: [] when the call raised
Listed(env) == IF "areaBasedList2" \in env.down THEN <<>> ELSE env.items

\* k of random.sample(items, k=min(want, len(items)))
SampleSize(want, cleaned) == Min(WantOrDefault(want), Len(cleaned))

\* what random.sample(items, k) may return: k items at distinct positions, in
\* any order
Samples(cleaned, k) ==
    {[i \in 1..k |-> cleaned[f[i]]] :
        f \in {g \in [1..k -> 1..Len(cleaned)] :
                 \A a, b \in 1..k : a # b => g[a] # g[b]}}

\* the samples the call may draw ({<<>>} where it draws none)
Picks(want, env) ==
    LET cleaned == _clean_items(Listed(env))
        k == SampleSize(want, cleaned)
    IN  IF cleaned = <<>> \/ k < 0 THEN {<<>>} ELSE Samples(cleaned, k)

\* step 4 of recommend_items: if not items: return []
NoCandidates(cleaned) == cleaned = <<>>

\* steps 3 to 6 of recommend_items, given the extraction ex, the area code
\* area, the cleaned items and what the loop over the sample makes
RecommendFrom(want0, env, c, ex, area, cleaned, loop) ==
    LET want == WantOrDefault(want0)
        head == ex.calls \o area.calls \o <<"areaBasedList2">>
        base == [cards |-> <<>>, raised |-> FALSE, calls |-> head,
                 logged |-> "areaBasedList2" \in env.down,
                 cache |-> c,
                 params |-> [numOfRows |-> NumRows(want), areaCode |-> area.code,
                             cat1 |-> ex.cat1]]
    IN  IF NoCandidates(cleaned) THEN base
        ELSE IF SampleSize(want0, cleaned) < 0 THEN [base EXCEPT !.raised = TRUE]
        ELSE [base EXCEPT !.cards = SliceTo(loop.cards, want),
                          !.calls = head \o loop.calls,
                          !.cache = loop.cache]

\* the call once _extract_region_and_cat1 answered ex
RecommendAfterExtract(want0, env, sample, c, t, ex) ==
    RecommendFrom(want0, env, c, ex,
                  _resolve_area_code(ex.region, env),
                  _clean_items(Listed(env)),
                  Enrich(sample, ex.region, env, c, t))

\* DataService.recommend_items(user_query, want) at time t, drawing sample.
\* raised: random.sample raises ValueError for a negative k.
recommend_items(user_query, want0, env, sample, c, t) ==
    RecommendAfterExtract(want0, env, sample, c, t,
                          _extract_region_and_cat1(user_query, env))

----------------------------------------------------------------------------
(* embedding_service.py and search_service.py : SearchService *)

\* EmbeddingService.embed([query])[0]: the vector the provider returns for
\* the query, or the exception of the provider call, which embed lets through
embed(env) ==
    IF "embed" \in env.down THEN [raised |-> TRUE, vec |-> <<>>]
    ELSE [raised |-> FALSE, vec |-> env.vec]

\* want = top_k or Config.NUM_RECOMMEND
TopKOrDefault(top_k) == IF top_k = 0 THEN NUM_RECOMMEND ELSE top_k

\* hits[0].get("cards") or []
CardsOfRow(obj) == IF "cards" \in DOMAIN obj THEN obj.cards ELSE <<>>

\* a faulty hit that returns every stored card (C1 is tested against it)
HitCardsAll(cards, want) == cards

\* what a cache hit returns: cards[:want]
HitCards(cards, want) == SliceTo(cards, want)

\* a variant of the hit test that only accepts a stored embedding equal to
\* the query's (C15 is tested against it)
IsHitIdentical(qv, hits) == hits # <<>> /\ hits[1].embedding = qv

\* step 2 of search: hits and sim >= Config.CACHE_SIM_THRESHOLD
IsHit(qv, hits) ==
    hits # <<>> /\ AtLeastThreshold(_cos_sim(qv, hits[1].embedding))

CacheHit(rows, qv) == IsHit(qv, VecSearch(rows, qv, 1))

\* two faulty persistence steps: one never adds (C2 is tested against it),
\* one adds an empty card list too (C5 is tested against it)
StoreAfterMissNever(rows, m, query, qv, cards) == rows

StoreAfterMissAlways(rows, m, query, qv, cards) == VecAdd(rows, m, query, qv, cards)

\* step 4 of search: if cards: self.cache.add(query, qv, cards)
StoreAfterMiss(rows, m, query, qv, cards) ==
    IF cards # <<>> THEN VecAdd(rows, m, query, qv, cards) ELSE rows

\* what search returns and leaves behind; nothing changes unless said
Outcome(qv, rows, c) ==
    [qv |-> qv, cards |-> <<>>, raised |-> FALSE, hit |-> FALSE, pipeline |-> FALSE,
     added |-> FALSE, rows |-> rows, cache |-> c, calls |-> <<"embed">>]

\* steps 3 and 4 of search: run is what recommend_items did
AfterRun(query, qv, rows, m, c, run) ==
    IF run.raised
    THEN [Outcome(qv, rows, c) EXCEPT !.raised = TRUE, !.pipeline = TRUE,
                                      !.calls = <<"embed">> \o run.calls]
    ELSE [Outcome(qv, rows, c) EXCEPT
              !.cards = run.cards,
              !.pipeline = TRUE,
              !.added = run.cards # <<>>,
              !.rows = StoreAfterMiss(rows, m, query, qv, run.cards),
              !.cache = run.cache,
              !.calls = <<"embed">> \o run.calls]

\* steps 2 to 4 of search: hits is what cache.search(qv, top_k=1) returned
AfterLookup(query, want, qv, hits, env, sample, rows, m, c, t) ==
    IF IsHit(qv, hits)
    THEN [Outcome(qv, rows, c) EXCEPT !.hit = TRUE,
                                      !.cards = HitCards(CardsOfRow(hits[1]), want)]
    ELSE AfterRun(query, qv, rows, m, c,
                  recommend_items(query, want, env, sample, c, t))

\* the call once the embedding service answered e
AfterEmbed(query, want, e, env, sample, rows, m, c, t) ==
    IF e.raised THEN [Outcome(<<>>, rows, c) EXCEPT !.raised = TRUE]
    ELSE AfterLookup(query, want, e.vec, VecSearch(rows, e.vec, 1),
                     env, sample, rows, m, c, t)

\* SearchService.search(query, top_k) on the file rows, the image cache c, at
\* time t; sample is what random.sample draws if the pipeline runs
search(query, top_k, env, sample, rows, m, c, t) ==
    AfterEmbed(query, TopKOrDefault(top_k), embed(env), env, sample, rows, m, c, t)

----------------------------------------------------------------------------
(* The cache alone: _VecCache.add and _VecCache.search on one file *)

\* embeddings given to the cache: the zero vector, two vectors of one
\* direction, and one at 45 degrees to them
VecsVec == {<<0, 0>>, <<1, 0>>, <<2, 0>>, <<1, 1>>}

SampleCard(n) ==
    [name |-> <<n>>, reason |-> <<"r">>, address |-> <<"a">>,
     image_url |-> <<>>, homepage |-> <<>>, contentid |-> n]

CardsVec == {<<SampleCard("A")>>, <<SampleCard("B"), SampleCard("A")>>}

\* a row some other writer left in the file: valid JSON without an embedding
LegacyRow == [query |-> "old", cards |-> <<SampleCard("A")>>]

SeedStores == {<<>>, <<LegacyRow>>}

InitVec ==
    /\ store \in SeedStores
    /\ max \in 0..MaxCacheItems
    /\ imgCache = NewImageCache(1, 2)
    /\ now = 0
    /\ writers = <<>>
    /\ ret = [op |-> "init", adds |-> <<>>]

\* cache.add(query, embedding, cards)
Add(query, embedding, cards) ==
    /\ Len(ret.adds) < MaxAdds
    /\ store' = VecAdd(store, max, query, embedding, cards)
    /\ ret' = [op |-> "add", embedding |-> embedding, cards |-> cards,
               adds |-> Append(ret.adds, [query |-> query, embedding |-> embedding,
                                          cards |-> cards])]
    /\ UNCHANGED <<max, imgCache, now, writers>>

\* cache.search(qvec, top_k); afterAdd: the call before it was an add
Lookup(qvec, top_k) ==
    /\ ret' = [op |-> "search", qvec |-> qvec, top_k |-> top_k,
               hits |-> VecSearch(store, qvec, top_k),
               afterAdd |-> ret.op = "add",
               addedVec |-> IF ret.op = "add" THEN ret.embedding ELSE <<>>,
               addedCards |-> IF ret.op = "add" THEN ret.cards ELSE <<>>,
               adds |-> ret.adds]
    /\ UNCHANGED <<store, max, imgCache, now, writers>>

NextVec ==
    \/ \E v \in VecsVec, c \in CardsVec : Add("q", v, c)
    \/ \E v \in VecsVec, k \in 1..MaxTopK : Lookup(v, k)

SpecVec == InitVec /\ [][NextVec]_vars

\* the last n elements of s (all of s if it has fewer)
LastN(s, n) == SubSeq(s, Max(Len(s) - n, 0) + 1, Len(s))

\* C6: once more than maxItems adds were made, the store holds exactly
\* maxItems records: the maxItems most recently added, in insertion order.
C6_EvictionKeepsNewest ==
    Len(ret.adds) > max => (Len(store) = max /\ store = LastN(ret.adds, max))

\* the same for a positive maxItems (the case the code handles)
C6_PositiveMaxKeepsNewest ==
    (max > 0 /\ Len(ret.adds) > max) =>
        (Len(store) = max /\ store = LastN(ret.adds, max))

\* a search(v, 1) made right after add(q, v, cards)
RoundTrip ==
    /\ ret.op = "search"
    /\ ret.afterAdd
    /\ ret.qvec = ret.addedVec
    /\ ret.top_k = 1

ReturnsAdded ==
    /\ Len(ret.hits) = 1
    /\ ret.hits[1].embedding = ret.addedVec
    /\ ret.hits[1].cards = ret.addedCards

\* C7: add(q, v, cards) then search(v, 1) returns a record with embedding v
\* and the cards just added, whatever the store held before.
C7_RoundTrip == RoundTrip => ReturnsAdded

\* a stored record, other than a copy of the added one, whose similarity to v
\* is not strictly below that of v with itself
Rival(r) ==
    /\ HasVec(r)
    /\ ~(r.embedding = ret.addedVec /\ r.cards = ret.addedCards)
    /\ ~SimGt(_cos_sim(ret.qvec, ret.addedVec), _cos_sim(ret.qvec, r.embedding))

NoRival == \A i \in 1..Len(store) : ~Rival(store[i])

\* C7 amended: the round trip returns the added record when every other
\* stored record is strictly less similar to v than v is to itself.
C7_RoundTripNoRival == (RoundTrip /\ NoRival) => ReturnsAdded

\* C7 witness: the round trip over a store that also holds a less similar record
C7_Witness ==
    /\ RoundTrip
    /\ NoRival
    /\ \E i \in 1..Len(store) :
          HasVec(store[i]) /\ store[i].embedding # ret.addedVec
    /\ ReturnsAdded

\* the similarity of the last search's query to the row at position p
SimAt(p) == _cos_sim(ret.qvec, store[p].embedding)

\* f places the hits of the last search in the file: hit i is the row at
\* position f[i], no position is used twice, similarities do not increase,
\* and equal similarities keep their file order
PlacesHits(f) ==
    /\ \A i \in DOMAIN f : HasVec(store[f[i]]) /\ store[f[i]] = ret.hits[i]
    /\ \A i, j \in DOMAIN f :
          i < j => \/ SimGt(SimAt(f[i]), SimAt(f[j]))
                   \/ SimEq(SimAt(f[i]), SimAt(f[j])) /\ f[i] < f[j]

\* C12: _VecCache.search(v, topK) returns at most topK records, ordered by
\* non-increasing cosine similarity to v, and records of equal similarity
\* appear in their storage (file) order.
C12_SortedStable ==
    ret.op = "search" =>
        /\ Len(ret.hits) <= ret.top_k
        /\ \E f \in [1..Len(ret.hits) -> 1..Len(store)] : PlacesHits(f)

\* a search returned two different records of equal similarity, the one
\* stored first in front
C12_Witness ==
    /\ ret.op = "search"
    /\ Len(ret.hits) = 2
    /\ ret.hits[1] # ret.hits[2]
    /\ SimEq(_cos_sim(ret.qvec, ret.hits[1].embedding),
             _cos_sim(ret.qvec, ret.hits[2].embedding))
    /\ \E p, q \in 1..Len(store) :
          p < q /\ store[p] = ret.hits[1] /\ store[q] = ret.hits[2]


----------------------------------------------------------------------------
(* The pipeline alone: DataService.recommend_items on one DataService *)

U_thumb == <<"http://", "tong", ".", "visitkorea", ".", "or", ".", "kr", "/", "a", ".", "jpg">>
U_cdn == <<"https://", "cdn", ".", "test", "/", "b", ".", "png">>
U_noext == <<"https://", "cdn", ".", "test", "/", "photo">>

Item(cid, title, addr1, addr2, firstimage2, firstimage) ==
    [contentid |-> cid, title |-> title, addr1 |-> addr1, addr2 |-> addr2,
     firstimage2 |-> firstimage2, firstimage |-> firstimage, cat1 |-> "A02"]

\* listing items: a sight with images, one whose title is only bold markup
\* and whose address is blank, one without a content id, and four that
\* _clean_items drops (two shop names, a blank title, a shop suffix)
I_palace == Item("c1", <<"<b>", "Palace", "</b>">>, <<"Seoul">>, <<"1">>, U_noext, U_cdn)
I_bold == Item("c2", <<"<b>", "</b>">>, <<>>, <<" ">>, <<>>, <<>>)
I_noid == Item("", <<"jeom", "Temple">>, <<" ", "Jeju">>, <<>>, <<>>, <<>>)
I_mart == Item("c3", <<"Lotte", "mart">>, <<"Busan">>, <<>>, <<>>, <<>>)
I_blank == Item("c4", <<" ">>, <<"Busan">>, <<>>, <<>>, <<>>)
I_shop == Item("c5", <<"Book", "jeom">>, <<"Busan">>, <<>>, <<>>, <<>>)
I_store == Item("c6", <<"store", "Seoul">>, <<"Seoul">>, <<>>, <<>>, <<>>)

\* what areaBasedList2 may list
ListingsPipe ==
    {<<>>, <<I_mart>>, <<I_mart, I_blank, I_shop, I_store>>, <<I_palace>>,
     <<I_palace, I_bold>>, <<I_mart, I_palace, I_noid>>, <<I_bold, I_noid>>}

DetailPipe ==
    [cid \in {"c1", "c2"} |->
        IF cid = "c1"
        THEN [overview |-> <<" ", "Old", "palace", ".", "Rebuilt">>,
              homepage |-> <<"<a ", "href=\"", "http://", "palace", ".", "kr", "\"", ">">>]
        ELSE [overview |-> <<>>, homepage |-> <<>>]]

ImagesPipe ==
    [cid \in {"c1"} |-> <<[originimgurl |-> U_noext, smallimageurl |-> U_thumb]>>]

AreasPipe == <<[name |-> <<"seoul">>, code |-> "1"], [name |-> <<"jeju", "do">>, code |-> "39"]>>

HeadsGood == [u \in {U_cdn} |-> HeadGood]
HeadsFail == [u \in {U_cdn} |-> HeadRaises]

SummaryGood == <<"A", "fine", "palace", ".", "Go">>
SummaryBlank == <<".">>

\* what goes wrong during one call: one endpoint down, an unusable summary,
\* failing HEAD probes (with or without the detail images)
ScenariosPipe ==
    {[down |-> {d}, summary |-> SummaryGood, head |-> HeadsGood] : d \in Deps \ {"embed"}}
    \cup {[down |-> {}, summary |-> SummaryGood, head |-> HeadsGood],
          [down |-> {}, summary |-> SummaryBlank, head |-> HeadsGood],
          [down |-> {}, summary |-> SummaryGood, head |-> HeadsFail],
          [down |-> {"detailImage2"}, summary |-> SummaryGood, head |-> HeadsFail]}

EnvOf(sc, listing) ==
    [down |-> sc.down, llm |-> [region |-> <<"jeju", "teukbyeoljachido">>, cat1 |-> "a01"],
     areas |-> AreasPipe, items |-> listing, detail |-> DetailPipe,
     summary |-> sc.summary, images |-> ImagesPipe, head |-> sc.head]

EnvsPipe == {EnvOf(sc, ls) : sc \in ScenariosPipe, ls \in ListingsPipe}

QueryJeju == <<"jeju", " ", "nature">>

InitPipe ==
    /\ store = <<>>
    /\ max = MaxCacheItems
    /\ imgCache = NewImageCache(1, 2)
    /\ now = 0
    /\ writers = <<>>
    /\ ret = [op |-> "init"]

\* data_svc.recommend_items(query, want)
Recommend(query, want, env, sample) ==
    \E r \in {recommend_items(query, want, env, sample, imgCache, now)} :
        /\ imgCache' = r.cache
        /\ ret' = [op |-> "recommend", want |-> want, cards |-> r.cards,
                   raised |-> r.raised, calls |-> r.calls, logged |-> r.logged,
                   listed |-> Listed(env),
                   listFailed |-> "areaBasedList2" \in env.down]
        /\ UNCHANGED <<store, max, now, writers>>

NextPipe ==
    \E want \in -1..MaxTopK, env \in EnvsPipe :
        \E sample \in Picks(want, env) : Recommend(QueryJeju, want, env, sample)

SpecPipe == InitPipe /\ [][NextPipe]_vars

\* every card carries a name, a reason and an address
CardsFilled(cards) ==
    \A i \in 1..Len(cards) :
        cards[i].name # <<>> /\ cards[i].reason # <<>> /\ cards[i].address # <<>>

\* C3: recommend_items(query, want) returns at most want cards, for every
\* integer want, and each card has a non-empty name, reason and address.
\* (Stated for the wants from 0 on: no list has at most want cards for a
\* negative want.)
C3_AtMostWantFilled ==
    (ret.op = "recommend" /\ ret.want >= 0) =>
        (~ret.raised /\ Len(ret.cards) <= ret.want /\ CardsFilled(ret.cards))

\* an item _clean_items drops: no title, or a shop name
Filtered(it) == Strip(it.title) = <<>> \/ Commercial(Strip(it.title))

NothingLeft == \A i \in 1..Len(ret.listed) : Filtered(ret.listed[i])

\* C3 amended: a positive want bounds the number of cards, a want of 0 stands
\* for NUM_RECOMMEND, and a negative want returns [] when nothing is left
\* after cleaning and raises otherwise; the cards returned are always filled.
C3_AtMostEffectiveWantFilled ==
    ret.op = "recommend" =>
        /\ CardsFilled(ret.cards)
        /\ ret.want > 0 => (~ret.raised /\ Len(ret.cards) <= ret.want)
        /\ ret.want = 0 => (~ret.raised /\ Len(ret.cards) <= NUM_RECOMMEND)
        /\ ret.want < 0 => (ret.cards = <<>> /\ (ret.raised <=> ~NothingLeft))

\* C3 witness: two candidates, one card wanted, and the card returned is the
\* one made of placeholders only
C3_Witness ==
    /\ ret.op = "recommend"
    /\ ret.want = 1
    /\ Len(ret.listed) = 2
    /\ ~NothingLeft
    /\ Len(ret.cards) = 1
    /\ ret.cards[1].name = NO_NAME
    /\ ret.cards[1].reason = NO_REASON
    /\ ret.cards[1].address = NO_ADDRESS

EnrichmentCalls == {"detailCommon2", "summary", "validate", "head", "detailImage2"}

\* C9: with nothing left after cleaning (listing empty, listing call failed,
\* every item filtered) recommend_items returns [] without raising and makes
\* no detail, summary, image validation or detail image call.
C9_EmptyCandidatesStopEarly ==
    (ret.op = "recommend" /\ NothingLeft) =>
        /\ ret.cards = <<>>
        /\ ~ret.raised
        /\ \A i \in 1..Len(ret.calls) : ret.calls[i] \notin EnrichmentCalls

\* C9 witness: a listing of several items, all of them filtered
C9_Witness ==
    /\ ret.op = "recommend"
    /\ Len(ret.listed) > 1
    /\ NothingLeft
    /\ ret.cards = <<>>
    /\ ~ret.listFailed

\* C10: a failed listing call does not give the caller what a listing that
\* is empty after cleaning gives (the empty list, returned normally).
C10_FailureDistinguished ==
    (ret.op = "recommend" /\ ret.listFailed) => ~(ret.cards = <<>> /\ ~ret.raised)

\* C10 amended: a failed listing call and an empty cleaned listing both
\* return the empty list normally; only the failure prints a diagnostic.
C10_FailureReturnsEmptyAndLogs ==
    ret.op = "recommend" =>
        /\ ret.listFailed => (ret.cards = <<>> /\ ~ret.raised)
        /\ ret.logged <=> ret.listFailed

\* C10 witness: the listing call failed and the empty list came back
C10_Witness ==
    /\ ret.op = "recommend"
    /\ ret.listFailed
    /\ ret.logged
    /\ ret.cards = <<>>
    /\ ~ret.raised

----------------------------------------------------------------------------
(* The image validator alone: _validate_image_url on one URL *)

\* scheme://[userinfo@]host[:port]/path
MkUrl(scheme, userinfo, host, port, path) ==
    <<scheme>> \o userinfo \o host \o port \o path

SchemesUrl == {"http://", "https://"}

UserinfosUrl == {<<>>, <<"user", "@">>, <<"user", ":", "pw", "@">>}

HostsUrl ==
    {<<"example", ".", "com">>, <<"img", ".", "example", ".", "com">>,
     <<"EXAMPLE", ".", "com">>, <<"localhost">>, <<"127.0.0.1">>,
     <<"notexample", ".", "com">>, <<"cdn", ".", "test">>,
     <<"tong", ".", "visitkorea", ".", "or", ".", "kr">>}

PortsUrl == {<<>>, <<":", "8080">>}

PathsUrl == {<<"/", "a", ".", "jpg">>, <<"/", "a", ".", "JPG">>, <<"/", "a", ".", "gif">>,
             <<"/", "photo">>}

Urls ==
    {MkUrl(sc, ui, h, po, pa) :
        sc \in SchemesUrl, ui \in UserinfosUrl, h \in HostsUrl, po \in PortsUrl,
        pa \in PathsUrl}

HeadAnswers ==
    {HeadRaises, HeadGood, HeadAnswer(404, TRUE, 2048), HeadAnswer(200, FALSE, 2048),
     HeadAnswer(200, TRUE, -1), HeadAnswer(200, TRUE, 100),
     HeadAnswer(200, TRUE, IMAGE_MAX_BYTES + 1)}

\* a call about to be made: the URL given and what the HEAD probe will answer
InitUrl ==
    /\ store = <<>>
    /\ max = MaxCacheItems
    /\ imgCache = NewImageCache(1, 2)
    /\ now = 0
    /\ writers = <<>>
    /\ \E url \in Urls, head \in HeadAnswers :
          ret = [op |-> "call", url |-> url, head |-> head]

\* _validate_image_url(url)
ValidateUrl ==
    /\ ret.op = "call"
    /\ ret' = [op |-> "validate", url |-> ret.url, head |-> ret.head,
               result |-> _validate_image_url(ret.url, ret.head)]
    /\ UNCHANGED <<store, max, imgCache, now, writers>>

NextUrl == ValidateUrl

SpecUrl == InitUrl /\ [][NextUrl]_vars

\* the host a URL names: urlparse(url).hostname, the netloc without the
\* user-info part and the port, in lower case
UrlHostname(url) == Before(AfterLast(Lower(UrlNetloc(url)), "@"), {":"})

\* C8: a URL whose host is a deny-listed domain or a subdomain of one is
\* rejected, whatever its port, user-info part, extension or HEAD answer.
C8_DeniedHostRejected ==
    (ret.op = "validate" /\ HostDenied(UrlHostname(ret.url))) => ret.result = <<>>

\* the same for the URLs without a user-info part (the case the code handles)
C8_DeniedHostRejectedNoUserinfo ==
    (/\ ret.op = "validate"
     /\ ~Contains(UrlNetloc(ret.url), "@")
     /\ HostDenied(UrlHostname(ret.url))) => ret.result = <<>>

----------------------------------------------------------------------------
(* The service: SearchService.search called again and again by the page *)

\* embeddings the provider returns: the zero vector (similarity 0 to every
\* vector, itself included) and two vectors of similarity 0.894 (a hit)
VecsSearch == {<<0, 0>>, <<1, 0>>, <<2, 1>>}

\* what areaBasedList2 lists: two sights, or two shops that _clean_items drops
SightsSearch == <<I_bold, I_noid>>

ShopsSearch == <<I_mart, I_shop>>

\* what a call may meet: all is well, nothing is left after cleaning, the
\* listing call fails, the embedding call fails
ScenariosSearch == {"sights", "shops", "listing down"}

DownSearch(sc) ==
    IF sc = "listing down" THEN {"areaBasedList2"}
    ELSE IF sc = "embed down" THEN {"embed"}
    ELSE {}

EnvsSearch ==
    [v \in VecsSearch \cup {<<>>}, sc \in ScenariosSearch \cup {"embed down"} |->
        [vec |-> v]
        @@ EnvOf([down |-> DownSearch(sc), summary |-> SummaryGood, head |-> HeadsGood],
                 IF sc = "shops" THEN ShopsSearch ELSE SightsSearch)]

EnvEmbedDown == EnvsSearch[<<>>, "embed down"]

Init ==
    /\ store = <<>>
    /\ max = MaxCacheItems
    /\ imgCache = NewImageCache(1, 2)
    /\ now = 0
    /\ writers = <<>>
    /\ ret = [op |-> "init"]

\* the position of the nearest record of rows to qv: no record is more
\* similar and no earlier record is as similar
IsNearest(rows, qv, i) ==
    /\ HasVec(rows[i])
    /\ \A j \in 1..Len(rows) :
          HasVec(rows[j]) =>
             /\ ~SimGt(_cos_sim(qv, rows[j].embedding), _cos_sim(qv, rows[i].embedding))
             /\ (j < i => SimGt(_cos_sim(qv, rows[i].embedding),
                                _cos_sim(qv, rows[j].embedding)))

\* the nearest record of rows to qv reaches the threshold
NearestSimilar(rows, qv, i) ==
    /\ i \in 1..Len(rows)
    /\ IsNearest(rows, qv, i)
    /\ AtLeastThreshold(_cos_sim(qv, rows[i].embedding))

\* some record of rows reaches the threshold (the nearest one does, then)
SomeSimilar(rows, qv) ==
    \E i \in 1..Len(rows) :
        HasVec(rows[i]) /\ AtLeastThreshold(_cos_sim(qv, rows[i].embedding))

\* rows with one more record behind them, the oldest dropped beyond m
WithRecord(rows, m, query, qv, cards) ==
    LastN(Append(rows, [query |-> query, embedding |-> qv, cards |-> cards]), m)

\* the call before this one was a search that ran the pipeline and got cards
Repeatable == ret.op = "search" /\ ret.added

\* search_svc.search(query, top_k)
Search(query, top_k, env, sample) ==
    \E r \in {search(query, top_k, env, sample, store, max, imgCache, now)} :
        /\ store' = r.rows
        /\ imgCache' = r.cache
        /\ ret' = [op |-> "search", qv |-> r.qv, top_k |-> top_k,
                   embedFailed |-> "embed" \in env.down,
                   raised |-> r.raised, hit |-> r.hit, pipeline |-> r.pipeline,
                   added |-> r.added, cards |-> r.cards,
                   similar |-> SomeSimilar(store, r.qv),
                   kept |-> r.rows = store,
                   appended |-> r.rows = WithRecord(store, max, query, r.qv, r.cards),
                   again |-> Repeatable /\ ret.qv = r.qv /\ ret.top_k = top_k,
                   sameCards |-> Repeatable /\ ret.cards = r.cards]
        /\ UNCHANGED <<max, now, writers>>

\* a call whose embedding fails; a call whose embedding v arrives: on a hit
\* nothing else is asked, on a miss the pipeline meets any scenario and draws
\* any sample
Next ==
    \/ \E top_k \in 0..MaxTopK : Search(QueryJeju, top_k, EnvEmbedDown, <<>>)
    \/ \E top_k \in 0..MaxTopK, v \in VecsSearch :
          \E hit \in {CacheHit(store, v)} :
             \E sc \in (IF hit THEN {"sights"} ELSE ScenariosSearch) :
                \E sample \in (IF hit THEN {<<>>}
                               ELSE Picks(TopKOrDefault(top_k), EnvsSearch[v, sc])) :
                   Search(QueryJeju, top_k, EnvsSearch[v, sc], sample)

Spec == Init /\ [][Next]_vars

\* a search call whose embedding arrived while the store held a record
\* reaching the threshold
Answerable == ret.op = "search" /\ ~ret.embedFailed /\ ret.similar

\* C1: when the nearest cached record reaches the threshold, search returns
\* exactly that record's stored cards, at most topK of them, and does not run
\* recommend_items.  (Stated for a topK of 1 or more: 0 stands for a call
\* without topK as well, which requests no length.  The store is read after
\* the call, which did not write to it: ret.kept.)
C1_HitReturnsStoredCards ==
    (Answerable /\ ret.top_k >= 1 /\ ret.kept) =>
        \E i \in 1..Len(store) :
            /\ NearestSimilar(store, ret.qv, i)
            /\ ret.cards = store[i].cards
            /\ Len(ret.cards) <= ret.top_k
            /\ ~ret.pipeline

\* C1 amended: on such a hit search leaves the store as it was, returns the
\* first want stored cards of the nearest record (all of them when fewer are
\* stored), want being topK, or NUM_RECOMMEND when topK is 0, and does not
\* run recommend_items.
C1_HitReturnsStoredPrefix ==
    Answerable =>
        /\ ret.hit
        /\ ret.kept
        /\ ~ret.pipeline
        /\ ~ret.raised
        /\ \E i \in 1..Len(store) :
              /\ NearestSimilar(store, ret.qv, i)
              /\ ret.cards = SubSeq(store[i].cards, 1,
                                    Min(Len(store[i].cards),
                                        IF ret.top_k = 0 THEN NUM_RECOMMEND
                                        ELSE ret.top_k))

\* C1 witness: a hit on the second of two records that returned fewer cards
\* than the record stores
C1_Witness ==
    /\ Answerable
    /\ ret.hit
    /\ Len(store) >= 2
    /\ NearestSimilar(store, ret.qv, 2)
    /\ Len(ret.cards) < Len(store[2].cards)

NonZero(v) == Dot(v, v) > 0

\* C2: a search that repeats the one before it, which missed and got cards,
\* hits the cache, returns the same cards and runs no second pipeline,
\* whatever the embedding vector.
C2_RepeatHits ==
    (ret.op = "search" /\ ret.again) =>
        (ret.hit /\ ret.sameCards /\ ~ret.pipeline /\ ~ret.added)

\* C2 amended: the same for every embedding vector that is not all zero.
C2_RepeatHitsNonZero ==
    (ret.op = "search" /\ ret.again /\ NonZero(ret.qv)) =>
        (ret.hit /\ ret.sameCards /\ ~ret.pipeline /\ ~ret.added)

\* C2 witness: a repeated search with a non-zero vector answered from the cache
C2_Witness ==
    /\ ret.op = "search"
    /\ ret.again
    /\ NonZero(ret.qv)
    /\ ret.hit
    /\ ret.cards # <<>>

\* C4: no failure of a dependency called during search escapes as an
\* exception: search returns a card list.
C4_NoFailureEscapes == ret.op = "search" => ~ret.raised

\* a failure of the listing call is absorbed (ret.raised only after a failed
\* embedding call)
C4_PipelineFailuresAbsorbed ==
    (ret.op = "search" /\ ~ret.embedFailed) => ~ret.raised

\* C5: a record is appended exactly when the call missed and its pipeline
\* returned at least one card; every other call leaves the store as it was;
\* no stored record has an empty card list.
C5_AddOnlyAfterFruitfulMiss ==
    ret.op = "search" =>
        /\ ret.added <=> (~ret.hit /\ ret.pipeline /\ ~ret.raised /\ ret.cards # <<>>)
        /\ ret.added => ret.appended
        /\ ~ret.added => ret.kept
        /\ \A i \in 1..Len(store) : store[i].cards # <<>>

\* C5 witness: a record was just appended behind another one, filling the store
C5_Witness ==
    /\ ret.op = "search"
    /\ ret.added
    /\ Len(store) = max
    /\ store[Len(store)].cards = ret.cards
    /\ store[1].embedding # store[Len(store)].embedding

\* C15: starting from an empty store, after any sequence of
\* SearchService.search calls no two distinct records of the similarity
\* cache have embeddings whose cosine similarity reaches the threshold.
C15_NoTwoSimilarRecords ==
    \A i, j \in 1..Len(store) :
        (i < j /\ HasVec(store[i]) /\ HasVec(store[j])) =>
            ~AtLeastThreshold(_cos_sim(store[i].embedding, store[j].embedding))

\* the store holds two records, and the last search was answered from the
\* record of a different embedding that is similar to the query's
C15_Witness ==
    /\ Len(store) = 2
    /\ ret.op = "search"
    /\ ret.hit
    /\ \E i \in 1..2 :
          /\ store[i].embedding # ret.qv
          /\ AtLeastThreshold(_cos_sim(ret.qv, store[i].embedding))

----------------------------------------------------------------------------
(* The image choice alone: DataService._pick_valid_image on some image     *)
(* cache, then time passing, then _img_cache.get for the same content id   *)

U_thumbs == _to_https(U_thumb)

\* image caches earlier calls may have left: empty, one entry, two entries
SeedEntries ==
    {<<>>,
     <<[key |-> "c1", url |-> U_cdn, saved_at |-> 0]>>,
     <<[key |-> "c2", url |-> U_cdn, saved_at |-> 0],
       [key |-> "c1", url |-> U_thumbs, saved_at |-> 1]>>}

\* the detail-image endpoint up or down, HEAD probes answering well or failing
ScenariosPick ==
    {[down |-> dn, summary |-> SummaryGood, head |-> hd] :
        dn \in {{}, {"detailImage2"}}, hd \in {HeadsGood, HeadsFail}}

\* what the image fields of a listing item may hold
FieldsPick == {<<>>, U_thumb, U_cdn, U_noext}

\* content ids: none, one with detail images, one without
CidsPick == {"", "c1", "c2"}

InitPick ==
    /\ store = <<>>
    /\ max = 0
    /\ \E ttl \in {0, 1}, entries \in SeedEntries :
          imgCache = [NewImageCache(ttl, 2) EXCEPT !.store = entries]
    /\ now \in 0..MaxTime
    /\ writers = <<>>
    /\ \A i \in 1..Len(imgCache.store) : imgCache.store[i].saved_at <= now
    /\ ret = [op |-> "init"]

\* self._pick_valid_image(cid_key, firstimage2, firstimage)
PickImage(cid_key, firstimage2, firstimage, sc) ==
    /\ ret.op = "init"
    /\ \E r \in {_pick_valid_image(cid_key, firstimage2, firstimage,
                                   EnvOf(sc, <<>>), imgCache, now)} :
          /\ imgCache' = r.cache
          /\ ret' = [op |-> "pick", cid |-> cid_key, firstimage2 |-> firstimage2,
                     firstimage |-> firstimage, sc |-> sc, before |-> imgCache,
                     at |-> now, img |-> r.img, calls |-> r.calls]
    /\ UNCHANGED <<store, max, now, writers>>

\* time passes after the choice
TickPick ==
    /\ ret.op = "pick"
    /\ now < MaxTime
    /\ now' = now + 1
    /\ UNCHANGED <<store, max, imgCache, ret, writers>>

\* self._img_cache.get(cid_key), the next call on the cache after the choice
GetPicked ==
    /\ ret.op = "pick"
    /\ \E r \in {ImageCacheGet(imgCache, ret.cid, now)} :
          /\ imgCache' = r.cache
          /\ ret' = [ret EXCEPT !.op = "get"] @@ [url |-> r.url]
    /\ UNCHANGED <<store, max, now, writers>>

NextPick ==
    \/ \E cid \in CidsPick, f2 \in FieldsPick, f1 \in FieldsPick, sc \in ScenariosPick :
          PickImage(cid, f2, f1, sc)
    \/ TickPick
    \/ GetPicked

SpecPick == InitPick /\ [][NextPick]_vars

\* the URL an unexpired entry of cache c holds for key at time t, else ""
Fresh(c, key, t) ==
    IF \E i \in 1..Len(c.store) :
          c.store[i].key = key /\ ~(c.ttl > 0 /\ t - c.store[i].saved_at > c.ttl)
    THEN c.store[CHOOSE i \in 1..Len(c.store) : c.store[i].key = key].url
    ELSE <<>>

\* what each source of the last choice yields on its own: the cache entry,
\* the first image field passed (firstimage2), the second (firstimage), the
\* detail-image endpoint
Sources ==
    <<Fresh(ret.before, ret.cid, ret.at),
      Validate(ret.firstimage2, EnvOf(ret.sc, <<>>)).url,
      Validate(ret.firstimage, EnvOf(ret.sc, <<>>)).url,
      _fetch_detail_image(ret.cid, EnvOf(ret.sc, <<>>)).url>>

\* the first source that yields a URL, 5 if none does
Winner ==
    IF \E i \in 1..4 : Sources[i] # <<>>
    THEN CHOOSE i \in 1..4 : Sources[i] # <<>> /\ \A j \in 1..(i - 1) : Sources[j] = <<>>
    ELSE 5

\* how many "validate" calls a log holds before its first "detailImage2"
RECURSIVE FieldValidations(_)
FieldValidations(calls) ==
    IF calls = <<>> \/ Head(calls) = "detailImage2" THEN 0
    ELSE (IF Head(calls) = "validate" THEN 1 ELSE 0) + FieldValidations(Tail(calls))

\* the sources the last choice consulted: the cache, the image fields it
\* validated, the detail-image endpoint if it was called
Consulted ==
    1 + FieldValidations(ret.calls)
      + (IF \E i \in 1..Len(ret.calls) : ret.calls[i] = "detailImage2" THEN 1 ELSE 0)

\* the choice is the first source that yields a URL, and no later source is
\* consulted
FirstSourceWins ==
    /\ ret.img = (IF Winner <= 4 THEN Sources[Winner] ELSE <<>>)
    /\ Consulted = Min(Winner, 4)

\* C11 as stated: _pick_valid_image consults cache, first field, second
\* field, detail-image endpoint in this order, the first source yielding a
\* URL wins and no later one is consulted, and every URL that did not come
\* from the cache is written back, so that the get for the same content id
\* that follows (here: before any time has passed) returns it
C11_FirstSourceWinsAndIsCached ==
    ret.op \in {"pick", "get"} =>
        /\ FirstSourceWins
        /\ (ret.op = "get" /\ now = ret.at /\ Winner \in 2..4) => ret.url = ret.img

\* C11 amended: the order and first-wins parts hold as stated; the write-back
\* holds for a non-empty content id, and the following get returns the URL
\* as long as the entry's TTL has not passed; with an empty content id
\* nothing is cached and the following get returns ""
C11_FirstSourceWinsAndIsCachedUnderKey ==
    ret.op \in {"pick", "get"} =>
        /\ FirstSourceWins
        /\ (ret.op = "get" /\ Winner \in 2..4 /\ ret.cid # ""
              /\ ~(imgCache.ttl > 0 /\ now - ret.at > imgCache.ttl))
           => ret.url = ret.img
        /\ (ret.op = "get" /\ ret.cid = "") => ret.url = <<>>

\* the second image field won after the first failed, time passed, and the
\* following get returned the URL
C11_Witness ==
    /\ ret.op = "get"
    /\ ret.cid # ""
    /\ Winner = 3
    /\ now > ret.at
    /\ ret.url = ret.img
    /\ ret.img # <<>>

----------------------------------------------------------------------------
(* The image cache alone: get and set calls on one _ImageCache while time  *)
(* passes                                                                  *)

\* content ids used as keys; "" is the key of an item without contentid
KeysImg == {"", "c1", "c2", "c3"}

UrlsImg == {<<>>, U_cdn}

InitImg ==
    /\ store = <<>>
    /\ max = 0
    /\ \E ttl \in {0, 1}, max_size \in 0..MaxImages :
          imgCache = NewImageCache(ttl, max_size)
    /\ now = 0
    /\ writers = <<>>
    /\ ret = [op |-> "init"]

\* self._img_cache.set(key, url)
SetImg(key, url) ==
    /\ imgCache' = ImageCacheSet(imgCache, key, url, now)
    /\ ret' = [op |-> "set", key |-> key, url |-> url, at |-> now,
               before |-> imgCache.store]
    /\ UNCHANGED <<store, max, now, writers>>

\* self._img_cache.get(key)
GetImg(key) ==
    /\ \E r \in {ImageCacheGet(imgCache, key, now)} :
          /\ imgCache' = r.cache
          /\ ret' = [op |-> "get", key |-> key, url |-> r.url]
    /\ UNCHANGED <<store, max, now, writers>>

\* time passes between two calls
TickImg ==
    /\ now < MaxTime
    /\ now' = now + 1
    /\ UNCHANGED <<store, max, imgCache, ret, writers>>

NextImg ==
    \/ \E key \in KeysImg, url \in UrlsImg : SetImg(key, url)
    \/ \E key \in KeysImg : GetImg(key)
    \/ TickImg

SpecImg == InitImg /\ [][NextImg]_vars

\* the elements of a sequence as a set
Range(s) == {s[i] : i \in 1..Len(s)}

\* G holds the n oldest positions of entries: n of them (all if there are
\* fewer), each older than every position left out, insertion order deciding
\* between equal timestamps
IsOldest(G, entries, n) ==
    /\ G \subseteq 1..Len(entries)
    /\ Cardinality(G) = Min(n, Len(entries))
    /\ \A g \in G, h \in (1..Len(entries)) \ G :
          \/ entries[g].saved_at < entries[h].saved_at
          \/ entries[g].saved_at = entries[h].saved_at /\ g < h

\* the cache holds what the last set left of the entries before it once the
\* positions G are removed, and key with url and the time of the call
RemovedAndStored(G) ==
    /\ Range(imgCache.store) =
          {ret.before[i] : i \in {j \in (1..Len(ret.before)) \ G :
                                     ret.before[j].key # ret.key}}
          \cup {[key |-> ret.key, url |-> ret.url, saved_at |-> ret.at]}
    /\ Cardinality(Range(imgCache.store)) = Len(imgCache.store)

\* the oldest half of a cache of size max_size, as set() counts it
Half(max_size) == Max(1, max_size \div 2)

\* the last call was a set and no get has changed the cache since
JustSet == ret.op = "set"

\* C13 as stated: a set on a cache at capacity removes the oldest half of the
\* entries by save timestamp, and only those, then stores key with the
\* current timestamp; after any sequence of get and set calls the cache
\* holds at most max entries, and the key just set is present (calls that
\* pass a url are looked at)
C13_SetEvictsOldestHalf ==
    /\ Len(imgCache.store) <= imgCache.max
    /\ (JustSet /\ ret.url # <<>>) =>
          /\ \E i \in 1..Len(imgCache.store) : imgCache.store[i].key = ret.key
          /\ Len(ret.before) >= imgCache.max =>
                \E G \in SUBSET (1..Len(ret.before)) :
                   IsOldest(G, ret.before, Half(imgCache.max)) /\ RemovedAndStored(G)

\* C13 amended: with a positive maximum, a non-empty key and a non-empty url
\* the statement holds, the oldest half being max(1, max // 2) entries, and
\* a set below capacity removes nothing; a set with an empty key or url
\* leaves the cache as it was; with a maximum of 0 nothing is ever removed by
\* set, so the size is not bounded by it
C13_SetEvictsOldestHalfWhenBounded ==
    /\ imgCache.max > 0 => Len(imgCache.store) <= imgCache.max
    /\ (JustSet /\ (ret.key = "" \/ ret.url = <<>>)) => imgCache.store = ret.before
    /\ (JustSet /\ ret.key # "" /\ ret.url # <<>>) =>
          \E G \in SUBSET (1..Len(ret.before)) :
             /\ IsOldest(G, ret.before,
                         IF imgCache.max > 0 /\ Len(ret.before) >= imgCache.max
                         THEN Half(imgCache.max) ELSE 0)
             /\ RemovedAndStored(G)

\* a set on a full cache of three entries whose oldest entry is the second
\* one inserted: that entry went, and the key set is another one
C13_Witness ==
    /\ JustSet
    /\ imgCache.max = 3
    /\ Len(ret.before) = 3
    /\ ret.url # <<>>
    /\ ret.key \notin {"", ret.before[2].key}
    /\ ret.before[2].saved_at < ret.before[1].saved_at
    /\ ret.before[2].saved_at < ret.before[3].saved_at
    /\ \A i \in 1..Len(imgCache.store) : imgCache.store[i].key # ret.before[2].key

----------------------------------------------------------------------------
(* Two processes sharing the cache file: each _VecCache.add reads the file *)
(* in one pass, opens it for writing (which empties it), writes its rows   *)
(* line by line at its own file position and closes.  Lines are taken to   *)
(* be of one size, so that a line written over another replaces it.        *)

Writers == {1, 2}

QueriesOf == <<<<"a1", "a2", "a3", "a4">>, <<"b1", "b2", "b3", "b4">>>>

\* the record process p adds in its n-th call
RecordOf(p, n) ==
    [query |-> QueriesOf[p][n], embedding |-> <<1, 0>>, cards |-> <<SampleCard("A")>>]

Idle == [pc |-> "idle", rows |-> <<>>, pos |-> 0]

InitWriters ==
    /\ store \in SeedStores
    /\ max \in 0..MaxCacheItems
    /\ imgCache = NewImageCache(1, 2)
    /\ now = 0
    /\ writers = [p \in Writers |-> Idle]
    /\ ret = [op |-> "init", begun |-> [p \in Writers |-> 0], seed |-> store,
              adds |-> <<>>, overlapped |-> FALSE]

\* rows = list(self._iter()); rows.append(..); if len(rows) > self.max: ..
\* overlapped: another process is inside add at this moment
AddRead(p) ==
    /\ writers[p].pc = "idle"
    /\ ret.begun[p] < Min(MaxAdds, Len(QueriesOf[p]))
    /\ \E rec \in {RecordOf(p, ret.begun[p] + 1)} :
          writers' = [writers EXCEPT ![p] =
                        [pc |-> "read", pos |-> 0,
                         rows |-> VecAdd(store, max, rec.query, rec.embedding, rec.cards)]]
    /\ ret' = [ret EXCEPT !.op = "read", !.begun[p] = @ + 1,
                          !.overlapped = @ \/ \E q \in Writers \ {p} : writers[q].pc # "idle"]
    /\ UNCHANGED <<store, max, imgCache, now>>

\* open(self.path, "w"): the file is emptied
AddOpen(p) ==
    /\ writers[p].pc = "read"
    /\ store' = <<>>
    /\ writers' = [writers EXCEPT ![p].pc = "open"]
    /\ ret' = [ret EXCEPT !.op = "open"]
    /\ UNCHANGED <<max, imgCache, now>>

\* the file after a line is written at position i (counted in lines): over
\* the line there, at the end, or behind the end, leaving a hole
PutLine(file, i, line) ==
    [j \in 1..Max(Len(file), i) |->
        IF j = i THEN line ELSE IF j <= Len(file) THEN file[j] ELSE Hole]

\* f.write(json.dumps(r) + "\n") for the next row
AddWriteLine(p) ==
    /\ writers[p].pc = "open"
    /\ writers[p].pos < Len(writers[p].rows)
    /\ store' = PutLine(store, writers[p].pos + 1, writers[p].rows[writers[p].pos + 1])
    /\ writers' = [writers EXCEPT ![p].pos = @ + 1]
    /\ ret' = [ret EXCEPT !.op = "write"]
    /\ UNCHANGED <<max, imgCache, now>>

\* the with block ends and add returns
AddClose(p) ==
    /\ writers[p].pc = "open"
    /\ writers[p].pos = Len(writers[p].rows)
    /\ writers' = [writers EXCEPT ![p] = Idle]
    /\ ret' = [ret EXCEPT !.op = "close",
                          !.adds = Append(@, RecordOf(p, ret.begun[p]))]
    /\ UNCHANGED <<store, max, imgCache, now>>

NextWriters ==
    \E p \in Writers : AddRead(p) \/ AddOpen(p) \/ AddWriteLine(p) \/ AddClose(p)

SpecWriters == InitWriters /\ [][NextWriters]_vars

\* no process is inside add
Quiescent == \A p \in Writers : writers[p].pc = "idle"

\* the rows the file held at the start, then the records of the adds that
\* have returned, in the order they returned
AllAdded == ret.seed \o ret.adds

\* an add that has returned left no trace in the file
SomeAddLost ==
    \E i \in 1..Len(ret.adds) :
       \A j \in 1..Len(store) : store[j] # ret.adds[i]

\* C14: the store is safe under single-writer access only.  As long as no
\* two add calls overlap, the file holds every record added, in order, up to
\* the FIFO eviction of the oldest rows beyond maxItems (nothing is evicted
\* when maxItems is 0); when two add calls interleave, a record one of them
\* added can be missing from the file although maxItems was not exceeded
\* (the state C14_Witness describes).
C14_SingleWriterKeepsAdds ==
    (Quiescent /\ ~ret.overlapped) =>
        /\ store = (IF max = 0 THEN AllAdded ELSE LastN(AllAdded, max))
        /\ Len(AllAdded) <= max => ~SomeAddLost

\* two interleaved adds have returned, fewer rows than maxItems were ever
\* added, and one of the two records is missing from the file
C14_Witness ==
    /\ Quiescent
    /\ ret.overlapped
    /\ Len(ret.adds) = 2
    /\ Len(AllAdded) <= max
    /\ SomeAddLost

====
